---------------------------- MODULE Spec2Model ----------------------------
(***************************************************************************)
(* StrategyQ calibrator: name reconciliation (mapping_indicators), range   *)
(* tables (build_ranges_jsons) and archive patching (generate_sqb,         *)
(* batch_generate_sqb) of src/utils.py, driven by src/main.py.             *)
(*                                                                         *)
(* A Python str is a sequence of one-character strings; None is the value  *)
(* None below, which is no such sequence.                                  *)
(***************************************************************************)
EXTENDS Integers, Sequences, FiniteSets, TLC

VARIABLES
    \* ---- build_mapping / mapping_indicators
    xmlKeys,          \* key attribute of every <Block> of the template's XML
    mt5_indicators,   \* internal names, in the order os.walk returned them
    sqx_indicators,   \* external names returned by get_sqx_indicators
    mapping,          \* dict built by mapping_indicators (external -> internal | None)
    mapIdx,           \* how many external names the loop has handled
    mapPc,            \* "read" | "loop" | "done"
    \* ---- generate_sqb
    template,         \* template archive: sequence of [name, data]
    ranges,           \* range table: external name -> sequence of numbers
    output,           \* output archive as it stands: sequence of [name, data]
    genPc,            \* "call" | "done" | "ParseError" | "IndexError"
    \* ---- calibrate_block_settings: build_ranges_jsons, then batch_generate_sqb
    timeframes,       \* mt5_multi["timeframes"]
    rangesDir,        \* ./ranges_by_tf: file name -> parsed JSON content
    rangesDir0,       \* ./ranges_by_tf as the run found it
    outDir,           \* ./calibrated_sqb: file name -> archive
    json_files,       \* sorted(ranges_dir.glob("*.json"))
    tfIdx,            \* loop index of the running loop
    calls,            \* the generate_sqb calls made so far: sequence of [tf, out, result]
    pc                \* "build" | "loop" | "done" | the name of the exception raised

vars == << xmlKeys, mt5_indicators, sqx_indicators, mapping, mapIdx, mapPc,
           template, ranges, output, genPc,
           timeframes, rangesDir, rangesDir0, outDir, json_files, tfIdx, calls, pc >>

mapVars   == << xmlKeys, mt5_indicators, sqx_indicators, mapping, mapIdx, mapPc >>
genVars   == << template, ranges, output, genPc >>
batchVars == << timeframes, rangesDir, rangesDir0, outDir, json_files, tfIdx, calls, pc >>

---------------------------------------------------------------------------
(* Bounds of the model *)

MaxBlocks == 2      \* <Block> elements in the XML read by get_sqx_indicators
MaxMt5 == 2         \* indicator binaries found by get_mt5_indicators

---------------------------------------------------------------------------
(* Python values and str operations *)

None == << "<None>" >>

\* The characters the model's names use, in code-point order.
Ascii ==
    << " ", "-", ".",
       "0", "1", "2", "3", "4", "5", "6", "7", "8", "9",
       "A", "B", "C", "D", "E", "F", "G", "H", "I", "J", "K", "L", "M",
       "N", "O", "P", "Q", "R", "S", "T", "U", "V", "W", "X", "Y", "Z",
       "_",
       "a", "b", "c", "d", "e", "f", "g", "h", "i", "j", "k", "l", "m",
       "n", "o", "p", "q", "r", "s", "t", "u", "v", "w", "x", "y", "z" >>

\* the place of each character in Ascii
OrdTable == [ c \in { Ascii[i] : i \in 1..Len(Ascii) } |->
                CHOOSE i \in 1..Len(Ascii) : Ascii[i] = c ]

Ord(c) == OrdTable[c]

IsUpper(c) == Ord(c) \in 14..39
IsDigit(c) == Ord(c) \in 4..13
IsLowerAlpha(c) == Ord(c) \in 41..66

\* str.lower(), one character
LowerChar(c) == IF IsUpper(c) THEN Ascii[Ord(c) + 27] ELSE c

\* str.lower()
Lower(s) == [i \in 1..Len(s) |-> LowerChar(s[i])]

\* str.strip(): leading and trailing whitespace removed
RECURSIVE LStrip(_)
LStrip(s) == IF s # << >> /\ Head(s) = " " THEN LStrip(Tail(s)) ELSE s

RECURSIVE RStrip(_)
RStrip(s) ==
    IF s # << >> /\ s[Len(s)] = " " THEN RStrip(SubSeq(s, 1, Len(s) - 1)) ELSE s

Strip(s) == RStrip(LStrip(s))

\* str.startswith
StartsWith(s, p) == Len(s) >= Len(p) /\ SubSeq(s, 1, Len(p)) = p

\* str.endswith
EndsWith(s, p) == Len(s) >= Len(p) /\ SubSeq(s, Len(s) - Len(p) + 1, Len(s)) = p

\* index of the first / last occurrence of character c in s, 0 if none
FirstIndex(s, c) ==
    IF \E i \in 1..Len(s) : s[i] = c
    THEN CHOOSE i \in 1..Len(s) : s[i] = c /\ \A j \in 1..(i - 1) : s[j] # c
    ELSE 0

LastIndex(s, c) ==
    IF \E i \in 1..Len(s) : s[i] = c
    THEN CHOOSE i \in 1..Len(s) : s[i] = c /\ \A j \in (i + 1)..Len(s) : s[j] # c
    ELSE 0

\* s.split(c, 1)[1], for s that holds c
AfterFirst(s, c) == SubSeq(s, FirstIndex(s, c) + 1, Len(s))

\* s.split(c)[-1]
AfterLast(s, c) == SubSeq(s, LastIndex(s, c) + 1, Len(s))

\* s < t for two str (code-point order, a proper prefix is smaller)
RECURSIVE StrLess(_, _)
StrLess(s, t) ==
    IF t = << >> THEN FALSE
    ELSE IF s = << >> THEN TRUE
    ELSE IF Head(s) = Head(t) THEN StrLess(Tail(s), Tail(t))
    ELSE Ord(Head(s)) < Ord(Head(t))

\* sorted(S) for a set of str
RECURSIVE SortedStrs(_)
SortedStrs(S) ==
    IF S = {} THEN << >>
    ELSE LET m == CHOOSE x \in S : \A y \in S \ {x} : StrLess(x, y)
         IN  << m >> \o SortedStrs(S \ {m})

\* the sequences over S of length 0..n
SeqsUpTo(S, n) == UNION { [1..k -> S] : k \in 0..n }

Range(f) == { f[x] : x \in DOMAIN f }

\* min(S), max(S) for a non-empty set of numbers
Min(S) == CHOOSE x \in S : \A y \in S : x <= y
Max(S) == CHOOSE x \in S : \A y \in S : x >= y

Indicators_ == << "I", "n", "d", "i", "c", "a", "t", "o", "r", "s", "." >>

---------------------------------------------------------------------------
(* get_sqx_indicators *)

\* The sorted, de-duplicated external names of the blocks keyed "Indicators.*"
\* (include_only_used is False in build_mapping's call).
get_sqx_indicators(keys) ==
    SortedStrs({ AfterFirst(keys[i], ".") :
                    i \in { j \in 1..Len(keys) : StartsWith(keys[j], Indicators_) } })

---------------------------------------------------------------------------
(* difflib, as mapping_indicators uses it (no junk; autojunk needs 200 items) *)

\* length of the common run of a ending at i and of b ending at j, inside the
\* windows a[alo..] and b[blo..]
RECURSIVE RunEndingAt(_, _, _, _, _, _)
RunEndingAt(a, b, i, j, alo, blo) ==
    IF i < alo \/ j < blo THEN 0
    ELSE IF a[i] # b[j] THEN 0
    ELSE 1 + RunEndingAt(a, b, i - 1, j - 1, alo, blo)

\* SequenceMatcher.find_longest_match(alo, ahi, blo, bhi), 1-based and closed:
\* the longest block, of those the one starting earliest in a, then earliest
\* in b; <<i, j, k>> with k = 0 when nothing matches.
find_longest_match(a, b, alo, ahi, blo, bhi) ==
    LET Block(i, j) == LET k == RunEndingAt(a, b, i, j, alo, blo)
                       IN  << i - k + 1, j - k + 1, k >>
        Cands == { Block(i, j) : i \in alo..ahi, j \in blo..bhi }
        bestsize == Max({ c[3] : c \in Cands })
        besti == Min({ c[1] : c \in { d \in Cands : d[3] = bestsize } })
        bestj == Min({ c[2] : c \in { d \in Cands : d[3] = bestsize /\ d[1] = besti } })
    IN  IF bestsize = 0 THEN << alo, blo, 0 >> ELSE << besti, bestj, bestsize >>

\* sum of the sizes of SequenceMatcher.get_matching_blocks() in the windows
RECURSIVE MatchedChars(_, _, _, _, _, _)
MatchedChars(a, b, alo, ahi, blo, bhi) ==
    IF alo > ahi \/ blo > bhi THEN 0
    ELSE LET m == find_longest_match(a, b, alo, ahi, blo, bhi)
         IN  IF m[3] = 0 THEN 0
             ELSE m[3]
                  + MatchedChars(a, b, alo, m[1] - 1, blo, m[2] - 1)
                  + MatchedChars(a, b, m[1] + m[3], ahi, m[2] + m[3], bhi)

\* SequenceMatcher(None, a, b).ratio() as the fraction <<numerator, denominator>>
\* (_calculate_ratio: 2.0 * matches / length, and 1.0 when length is 0)
ratio(a, b) ==
    IF Len(a) + Len(b) = 0 THEN << 1, 1 >>
    ELSE << 2 * MatchedChars(a, b, 1, Len(a), 1, Len(b)), Len(a) + Len(b) >>

\* r >= cutoff, cutoff given in hundredths
RatioAtLeast(r, cutoff100) == 100 * r[1] >= cutoff100 * r[2]

\* (score, x) tuples as heapq.nlargest orders them: score, then the str
ScoredLess(p, q) ==
    \/ p[1][1] * q[1][2] < q[1][1] * p[1][2]
    \/ p[1][1] * q[1][2] = q[1][1] * p[1][2] /\ StrLess(p[2], q[2])

\* heapq.nlargest(n, result) for a set of (score, x) tuples, best first
RECURSIVE NLargest(_, _)
NLargest(n, S) ==
    IF n = 0 \/ S = {} THEN << >>
    ELSE LET m == CHOOSE p \in S : \A q \in S \ {p} : ScoredLess(q, p)
         IN  << m >> \o NLargest(n - 1, S \ {m})

\* difflib.get_close_matches(word, possibilities, n, cutoff): seq1 is the
\* possibility, seq2 the word; the n best of those scoring >= cutoff, best first
get_close_matches(word, possibilities, n, cutoff100) ==
    LET scored == { << ratio(x, word), x >> : x \in Range(possibilities) }
        result == { p \in scored : RatioAtLeast(p[1], cutoff100) }
        best == NLargest(n, result)
    IN  [ i \in 1..Len(best) |-> best[i][2] ]

---------------------------------------------------------------------------
(* mapping_indicators *)

IsAlnumLower(c) == IsDigit(c) \/ IsLowerAlpha(c)

\* re.sub(r"[^a-z0-9]", "", s.lower().strip())
normalize(s) == SelectSeq(Strip(Lower(s)), IsAlnumLower)

Sq_ == << "s", "q" >>

\* normalize(ln[2:] if ln.lower().startswith("sq") else ln)
mt5_key(ln) ==
    normalize(IF StartsWith(Lower(ln), Sq_) THEN SubSeq(ln, 3, Len(ln)) ELSE ln)

\* norm_to_mt5 = dict(mt5_tuples): a later name replaces an earlier one with its key
norm_to_mt5(mt5) ==
    [ k \in { mt5_key(mt5[i]) : i \in 1..Len(mt5) } |->
        mt5[CHOOSE i \in 1..Len(mt5) :
                /\ mt5_key(mt5[i]) = k
                /\ \A j \in (i + 1)..Len(mt5) : mt5_key(mt5[j]) # k] ]

\* all_norm_keys = list(norm_to_mt5.keys()): keys in order of first insertion
RECURSIVE all_norm_keys(_)
all_norm_keys(mt5) ==
    IF mt5 = << >> THEN << >>
    ELSE LET front == all_norm_keys(SubSeq(mt5, 1, Len(mt5) - 1))
             k == mt5_key(mt5[Len(mt5)])
         IN  IF k \in Range(front) THEN front ELSE Append(front, k)

\* dict.get
DictGet(d, k) == IF k \in DOMAIN d THEN d[k] ELSE None

\* Python truth of a str or None
Truthy(v) == v # None /\ v # << >>

RAW_MANUAL ==
    << << << "W", "i", "l", "l", "i", "a", "m", "s", "P", "R" >>,
          << "S", "q", "W", "p", "r" >> >>,
       << << "L", "i", "n", "e", "a", "r", "R", "e", "g", "r", "e", "s", "s", "i", "o", "n" >>,
          << "L", "i", "n", "R", "e", "g" >> >>,
       << << "S", "M", "A" >>,
          << "C", "u", "s", "t", "o", "m", " ", "M", "o", "v", "i", "n", "g", " ",
             "A", "v", "e", "r", "a", "g", "e" >> >>,
       << << "S", "M", "M", "A" >>, << "n", "u", "l", "l" >> >>,
       << << "E", "M", "A" >>, << "n", "u", "l", "l" >> >>,
       << << "L", "W", "M", "A" >>, << "n", "u", "l", "l" >> >>,
       << << "C", "R", "S", "I" >>,
          << "C", "o", "n", "n", "o", "r", "s", "R", "S", "I" >> >> >>

\* MANUAL = {normalize(k): normalize(v) for k, v in RAW_MANUAL.items()}
MANUAL ==
    [ k \in { normalize(RAW_MANUAL[i][1]) : i \in 1..Len(RAW_MANUAL) } |->
        normalize(RAW_MANUAL[CHOOSE i \in 1..Len(RAW_MANUAL) :
                                /\ normalize(RAW_MANUAL[i][1]) = k
                                /\ \A j \in (i + 1)..Len(RAW_MANUAL) :
                                      normalize(RAW_MANUAL[j][1]) # k][2]) ]

\* FUZZY_PASSES: n and cutoff (in hundredths) of the two passes
FUZZY_PASSES == << [n |-> 4, cutoff |-> 30], [n |-> 1, cutoff |-> 60] >>

\* step 0 of the loop body: the exact lookup
ExactMatch(ind, mt5) == DictGet(norm_to_mt5(mt5), normalize(ind))

\* step 1: the alias lookup, which replaces the exact result whenever the
\* external key is an alias key
AliasMatch(ind, mt5) ==
    IF normalize(ind) \in DOMAIN MANUAL
    THEN DictGet(norm_to_mt5(mt5), MANUAL[normalize(ind)])
    ELSE ExactMatch(ind, mt5)

\* step 2: the two fuzzy passes, run when steps 0 and 1 left nothing
FuzzyMatch(ind, mt5) ==
    LET n_ind == normalize(ind)
        first == get_close_matches(n_ind, all_norm_keys(mt5),
                                   FUZZY_PASSES[1].n, FUZZY_PASSES[1].cutoff)
        second == get_close_matches(n_ind, first,
                                    FUZZY_PASSES[2].n, FUZZY_PASSES[2].cutoff)
    IN  IF first # << >> /\ second # << >>
        THEN norm_to_mt5(mt5)[second[1]]
        ELSE None

\* the value the loop body stores for one external name
match_original(ind, mt5) ==
    LET found == AliasMatch(ind, mt5)
        fuzzy == FuzzyMatch(ind, mt5)
    IN  IF Truthy(found) THEN found
        ELSE IF fuzzy # None THEN fuzzy
        ELSE found

\* mapping[ind] = match_original
DictSet(d, k, v) == [ x \in DOMAIN d \cup {k} |-> IF x = k THEN v ELSE d[x] ]

\* (a variant that keeps only the resolved names)
StoreMappingResolvedOnly(d, ind, v) == IF v = None THEN d ELSE DictSet(d, ind, v)

StoreMapping(d, ind, v) == DictSet(d, ind, v)

---------------------------------------------------------------------------
(* build_mapping: get_mt5_indicators, get_sqx_indicators, mapping_indicators *)

ADX == << "A", "D", "X" >>
WilliamsPR == << "W", "i", "l", "l", "i", "a", "m", "s", "P", "R" >>
CRSI == << "C", "R", "S", "I" >>
SqAdx == << "S", "q", "A", "d", "x" >>
SqWpr == << "S", "q", "W", "p", "r" >>
SqCRSI == << "S", "q", "C", "R", "S", "I" >>
SqConnorsRSI == << "S", "q", "C", "o", "n", "n", "o", "r", "s", "R", "S", "I" >>
ADX2 == << "A", "D", "X", "2" >>
Signals_ == << "S", "i", "g", "n", "a", "l", "s", "." >>

\* keys a <Block> of the XML may carry
KeyPool == { Indicators_ \o ADX, Indicators_ \o WilliamsPR, Indicators_ \o CRSI,
             Signals_ \o ADX }

\* names of the indicator binaries the Indicators folder may hold
Mt5Pool == { SqAdx, SqWpr, SqCRSI, SqConnorsRSI, ADX2 }

\* the other components' variables, idle
GenIdle ==
    /\ template = << >>
    /\ ranges = << >>
    /\ output = << >>
    /\ genPc = "idle"

BatchIdle ==
    /\ timeframes = << >>
    /\ rangesDir = << >>
    /\ rangesDir0 = << >>
    /\ outDir = << >>
    /\ json_files = << >>
    /\ tfIdx = 0
    /\ calls = << >>
    /\ pc = "idle"

MapIdle ==
    /\ xmlKeys = << >>
    /\ mt5_indicators = << >>
    /\ sqx_indicators = << >>
    /\ mapping = << >>
    /\ mapIdx = 0
    /\ mapPc = "idle"

InitReconcile ==
    /\ xmlKeys \in SeqsUpTo(KeyPool, MaxBlocks)
    /\ mt5_indicators \in SeqsUpTo(Mt5Pool, MaxMt5)
    /\ sqx_indicators = << >>
    /\ mapping = << >>
    /\ mapIdx = 0
    /\ mapPc = "read"
    /\ GenIdle
    /\ BatchIdle

\* build_mapping reads the external names, then mapping_indicators starts with
\* an empty dict
ReadCatalogs ==
    /\ mapPc = "read"
    /\ sqx_indicators' = get_sqx_indicators(xmlKeys)
    /\ mapping' = << >>
    /\ mapIdx' = 0
    /\ mapPc' = "loop"
    /\ UNCHANGED << xmlKeys, mt5_indicators, genVars, batchVars >>

\* one iteration of "for ind in sqx_indicators"
MapNext ==
    /\ mapPc = "loop"
    /\ mapIdx < Len(sqx_indicators)
    /\ LET ind == sqx_indicators[mapIdx + 1]
       IN  mapping' = StoreMapping(mapping, ind, match_original(ind, mt5_indicators))
    /\ mapIdx' = mapIdx + 1
    /\ UNCHANGED << xmlKeys, mt5_indicators, sqx_indicators, mapPc, genVars, batchVars >>

\* the loop is over: the dict is written to OUT_FILE
WriteMapping ==
    /\ mapPc = "loop"
    /\ mapIdx = Len(sqx_indicators)
    /\ mapPc' = "done"
    /\ UNCHANGED << xmlKeys, mt5_indicators, sqx_indicators, mapping, mapIdx,
                    genVars, batchVars >>

NextReconcile == ReadCatalogs \/ MapNext \/ WriteMapping

SpecReconcile == InitReconcile /\ [][NextReconcile]_vars

---------------------------------------------------------------------------
(* Claims about mapping_indicators *)

\* the internal names whose (Sq-stripped) normalized key is the external
\* name's normalized key
ExactCandidates(ind, mt5) ==
    { mt5[i] : i \in { j \in 1..Len(mt5) : mt5_key(mt5[j]) = normalize(ind) } }

\* C1: every external name whose normalized key equals the Sq-stripped
\* normalized key of some internal name is mapped to such an internal name's
\* original string (exact match wins over alias and fuzzy), also when its
\* normalized key is a key of the alias table.
C1_ExactWinsOverAlias ==
    \A ind \in DOMAIN mapping :
        ExactCandidates(ind, mt5_indicators) # {}
            => mapping[ind] \in ExactCandidates(ind, mt5_indicators)

\* C2: external ["ADX", "WilliamsPR"] against internal ["SqAdx", "SqWpr"]
\* yields exactly {"ADX": "SqAdx", "WilliamsPR": "SqWpr"}.
C2_AdxWilliamsScenario ==
    ( /\ mapPc = "done"
      /\ sqx_indicators = << ADX, WilliamsPR >>
      /\ mt5_indicators = << SqAdx, SqWpr >> )
        => /\ DOMAIN mapping = { ADX, WilliamsPR }
           /\ mapping[ADX] = SqAdx
           /\ mapping[WilliamsPR] = SqWpr

\* C3: when mapping_indicators has run, the mapping has exactly one entry per
\* external name it was given, resolved or None: as many entries as names.
C3_ReconciliationTotal ==
    mapPc = "done"
        => /\ Cardinality(DOMAIN mapping) = Len(sqx_indicators)
           /\ \A i \in 1..Len(sqx_indicators) : sqx_indicators[i] \in DOMAIN mapping

\* C3's case: two names reconciled, one resolved and one left unresolved.
C3_Witness ==
    /\ mapPc = "done"
    /\ Len(sqx_indicators) = 2
    /\ \E a, b \in DOMAIN mapping : mapping[a] = None /\ mapping[b] # None

---------------------------------------------------------------------------
(* The archive and its XML document                                        *)
(*                                                                         *)
(* An archive is the sequence of its entries, [name, data]. data is        *)
(* [kind |-> "bytes", id] for bytes that are no XML, or                    *)
(* [kind |-> "xml", form, elems] for a serialized document: form tells the *)
(* serialization ("raw": as the template's author wrote it, "et": as       *)
(* ET.tostring writes it) and elems are the elements below the root, in    *)
(* document order, each [tag, attrs].                                      *)

MaxEntries == 2     \* entries of the template archive
MaxElems == 2       \* elements below the root of the XML document

xml_inside == "config.xml"

\* str(x) for a number of the range table: one string per number (the
\* numbers count units of 1e-7, see Round)
Str(x) == ToString(x)

Elem(tag, attrs) == [tag |-> tag, attrs |-> attrs]

\* elements the template's document may hold
ElemPool ==
    { Elem("Block", [key |-> Indicators_ \o ADX, use |-> "true",
                     indicatorMin |-> "1", indicatorMax |-> "9", indicatorStep |-> "2"]),
      Elem("Block", [key |-> Indicators_ \o ADX, use |-> "false",
                     indicatorMin |-> "1", foo |-> "x"]),
      Elem("Block", [key |-> Indicators_ \o CRSI, selected |-> "1",
                     indicatorMin |-> "3", indicatorMax |-> "4", indicatorStep |-> "1"]),
      Elem("Block", [key |-> Signals_ \o ADX, use |-> "true", indicatorMin |-> "1"]),
      Elem("Block", [key |-> ADX, enabled |-> "true", indicatorMax |-> "9"]),
      Elem("Group", [key |-> Indicators_ \o ADX, indicatorMin |-> "1"]) }

XmlData(elems) == [kind |-> "xml", form |-> "raw", elems |-> elems]
BytesData(id) == [kind |-> "bytes", id |-> id]

\* range tables generate_sqb may be handed (a JSON object of lists)
RangesPool ==
    { << >>,
      (ADX :> << 5, 50, 1 >>),
      (ADX :> << 5, 50, 1 >>) @@ (CRSI :> << 0, 0, 0 >>),
      (ADX :> << >>),
      (ADX :> << 7 >>) }

---------------------------------------------------------------------------
(* _patch_block *)

\* block.get(name, default)
AttrGet(attrs, name, default) == IF name \in DOMAIN attrs THEN attrs[name] ELSE default

\* block.set(name, value)
AttrSet(attrs, name, value) ==
    [ a \in DOMAIN attrs \cup {name} |-> IF a = name THEN value ELSE attrs[a] ]

\* the first return: the key is not under "Indicators."
IsIndicatorKey(attrs) == StartsWith(AttrGet(attrs, "key", << >>), Indicators_)

\* name = key.split(".", 1)[1]
ExternalName(attrs) == AfterFirst(AttrGet(attrs, "key", << >>), ".")

\* rng = ranges.get(name), and the second return: "if not rng"
HasRange(attrs, rngs) ==
    /\ ExternalName(attrs) \in DOMAIN rngs
    /\ rngs[ExternalName(attrs)] # << >>

\* rng[0], rng[1], rng[2] raise IndexError on a list shorter than three
PatchRaises(attrs, rngs) ==
    /\ IsIndicatorKey(attrs)
    /\ HasRange(attrs, rngs)
    /\ Len(rngs[ExternalName(attrs)]) < 3

\* (a variant that rewrites only the blocks flagged as used)
PatchBlockIfUsed(attrs, rngs) ==
    IF IsIndicatorKey(attrs) /\ HasRange(attrs, rngs)
       /\ AttrGet(attrs, "use", "false") \in {"1", "true", "yes"}
    THEN LET rng == rngs[ExternalName(attrs)]
         IN  AttrSet(AttrSet(AttrSet(attrs, "indicatorMin", Str(rng[1])),
                             "indicatorMax", Str(rng[2])),
                     "indicatorStep", Str(rng[3]))
    ELSE attrs

\* (a variant that takes the name of any dotted key, whatever its namespace)
PatchBlockAnyNamespace(attrs, rngs) ==
    IF "." \in Range(AttrGet(attrs, "key", << >>)) /\ HasRange(attrs, rngs)
    THEN LET rng == rngs[ExternalName(attrs)]
         IN  AttrSet(AttrSet(AttrSet(attrs, "indicatorMin", Str(rng[1])),
                             "indicatorMax", Str(rng[2])),
                     "indicatorStep", Str(rng[3]))
    ELSE attrs

\* _patch_block on a block whose range, if any, has its three numbers: the
\* attributes of the block afterwards. The use/enabled/selected flag is read
\* for the log line only.
_patch_block(attrs, rngs) ==
    IF IsIndicatorKey(attrs) /\ HasRange(attrs, rngs)
    THEN LET rng == rngs[ExternalName(attrs)]
         IN  AttrSet(AttrSet(AttrSet(attrs, "indicatorMin", Str(rng[1])),
                             "indicatorMax", Str(rng[2])),
                     "indicatorStep", Str(rng[3]))
    ELSE attrs

---------------------------------------------------------------------------
(* generate_sqb *)

\* zin.read(item.filename): ZipFile looks the name up, and a name that occurs
\* twice names the entry read last from the central directory
ZipRead(zin, name) ==
    zin[CHOOSE i \in 1..Len(zin) :
            /\ zin[i].name = name
            /\ \A j \in (i + 1)..Len(zin) : zin[j].name # name].data

\* the document parses: ET.fromstring raises ParseError on bytes that are no XML
Parses(data) == data.kind = "xml"

\* root.findall(".//Block") with _patch_block on each, then ET.tostring
PatchDocument(data, rngs) ==
    [kind |-> "xml", form |-> "et",
     elems |-> [ e \in 1..Len(data.elems) |->
                    IF data.elems[e].tag = "Block"
                    THEN Elem("Block", _patch_block(data.elems[e].attrs, rngs))
                    ELSE data.elems[e] ]]

\* some block of the document makes _patch_block raise
DocumentRaises(data, rngs) ==
    \E e \in 1..Len(data.elems) :
        data.elems[e].tag = "Block" /\ PatchRaises(data.elems[e].attrs, rngs)

\* the data the loop body writes for entry i
EntryData(zin, i, rngs) ==
    LET data == ZipRead(zin, zin[i].name)
    IN  IF zin[i].name = xml_inside THEN PatchDocument(data, rngs) ELSE data

\* the exception the loop body raises at entry i, or "ok"
EntryError(zin, i, rngs) ==
    LET data == ZipRead(zin, zin[i].name)
    IN  IF zin[i].name # xml_inside THEN "ok"
        ELSE IF ~Parses(data) THEN "ParseError"
        ELSE IF DocumentRaises(data, rngs) THEN "IndexError"
        ELSE "ok"

\* entries before the first that raises
FirstError(zin, rngs) ==
    IF \E i \in 1..Len(zin) : EntryError(zin, i, rngs) # "ok"
    THEN CHOOSE i \in 1..Len(zin) :
            /\ EntryError(zin, i, rngs) # "ok"
            /\ \A j \in 1..(i - 1) : EntryError(zin, j, rngs) = "ok"
    ELSE 0

\* generate_sqb(template, output, ranges, "config.xml"): how it ends, and the
\* archive left at the output path (the entries written before an exception
\* stay in the file the with-block closes)
generate_sqb(zin, rngs) ==
    LET bad == FirstError(zin, rngs)
        n == IF bad = 0 THEN Len(zin) ELSE bad - 1
    IN  [status |-> IF bad = 0 THEN "done" ELSE EntryError(zin, bad, rngs),
         out |-> [ i \in 1..n |-> [name |-> zin[i].name,
                                   data |-> EntryData(zin, i, rngs)] ]]

\* entries the template archive may hold, around one document: an auxiliary
\* file, a second entry under the same name with other bytes, the document
\* under the designated name, and bytes that are no XML under that name
EntryPool(elems) ==
    { [name |-> "a.txt", data |-> BytesData(1)],
      [name |-> "a.txt", data |-> BytesData(2)],
      [name |-> xml_inside, data |-> BytesData(3)],
      [name |-> xml_inside, data |-> XmlData(elems)] }

\* the template archives: one to MaxEntries entries
Templates ==
    UNION { SeqsUpTo(EntryPool(elems), MaxEntries) \ { << >> } :
                elems \in SeqsUpTo(ElemPool, MaxElems) }

InitPatch ==
    /\ template \in Templates
    /\ ranges \in RangesPool
    /\ output = << >>
    /\ genPc = "call"
    /\ MapIdle
    /\ BatchIdle

\* the call of generate_sqb, from its first line to its return or exception
GenerateSqb ==
    /\ genPc = "call"
    /\ output' = generate_sqb(template, ranges).out
    /\ genPc' = generate_sqb(template, ranges).status
    /\ UNCHANGED << template, ranges, mapVars, batchVars >>

NextPatch == GenerateSqb

SpecPatch == InitPatch /\ [][NextPatch]_vars

---------------------------------------------------------------------------
(* Claims about _patch_block and generate_sqb *)

\* positions of the designated document in the archive generate_sqb wrote
DocEntries == { i \in 1..Len(output) : output[i].name = xml_inside }

\* the elements generate_sqb parsed for the designated document
SourceElems == ZipRead(template, xml_inside).elems

RangeAttrs == { "indicatorMin", "indicatorMax", "indicatorStep" }

\* the block carries the triple and nothing else of it has changed
CarriesRange(before, after, rng) ==
    /\ DOMAIN after = DOMAIN before \cup RangeAttrs
    /\ after["indicatorMin"] = Str(rng[1])
    /\ after["indicatorMax"] = Str(rng[2])
    /\ after["indicatorStep"] = Str(rng[3])
    /\ \A a \in DOMAIN before \ RangeAttrs : after[a] = before[a]

\* the key with its dot-separated namespace prefix stripped, if it has one
NameAfterNamespace(attrs) ==
    LET key == AttrGet(attrs, "key", << >>)
    IN  IF "." \in Range(key) THEN AfterFirst(key, ".") ELSE key

\* C4 as stated: after generate_sqb every Block of the designated document
\* whose key, stripped of its namespace prefix, has a range (lo, hi, step) in
\* the table carries that range, whatever its flag, and nothing else of the
\* Block has changed.
C4_EveryNamedBlockPatched ==
    genPc = "done" =>
        \A i \in DocEntries : \A e \in 1..Len(SourceElems) :
            ( /\ SourceElems[e].tag = "Block"
              /\ NameAfterNamespace(SourceElems[e].attrs) \in DOMAIN ranges
              /\ Len(ranges[NameAfterNamespace(SourceElems[e].attrs)]) = 3 )
                => CarriesRange(SourceElems[e].attrs, output[i].data.elems[e].attrs,
                                ranges[NameAfterNamespace(SourceElems[e].attrs)])

\* C4 amended: after generate_sqb every Block below the root of the designated
\* document whose key starts with "Indicators." and whose external name (the
\* key after its first dot) has a range (lo, hi, step) in the table carries
\* indicatorMin = str(lo), indicatorMax = str(hi), indicatorStep = str(step),
\* whatever its use/enabled/selected flag, and no other attribute has changed.
C4_IndicatorBlockPatched ==
    genPc = "done" =>
        \A i \in DocEntries : \A e \in 1..Len(SourceElems) :
            ( /\ SourceElems[e].tag = "Block"
              /\ IsIndicatorKey(SourceElems[e].attrs)
              /\ ExternalName(SourceElems[e].attrs) \in DOMAIN ranges
              /\ Len(ranges[ExternalName(SourceElems[e].attrs)]) = 3 )
                => CarriesRange(SourceElems[e].attrs, output[i].data.elems[e].attrs,
                                ranges[ExternalName(SourceElems[e].attrs)])

\* C4's case: a block flagged use="false" whose indicatorMin the patch replaced
\* by another value.
C4_Witness ==
    /\ genPc = "done"
    /\ \E i \in DocEntries : \E e \in 1..Len(SourceElems) :
        /\ SourceElems[e].tag = "Block"
        /\ IsIndicatorKey(SourceElems[e].attrs)
        /\ AttrGet(SourceElems[e].attrs, "use", "") = "false"
        /\ ExternalName(SourceElems[e].attrs) \in DOMAIN ranges
        /\ Len(ranges[ExternalName(SourceElems[e].attrs)]) = 3
        /\ output[i].data.elems[e].attrs["indicatorMin"]
              # SourceElems[e].attrs["indicatorMin"]

\* C5: a Block whose external name has no entry in the range table, and every
\* Block whose key is not under "Indicators.", leaves generate_sqb with all its
\* attributes as they were, indicatorMin/Max/Step included.
C5_UnmatchedBlockUntouched ==
    genPc = "done" =>
        \A i \in DocEntries : \A e \in 1..Len(SourceElems) :
            ( /\ SourceElems[e].tag = "Block"
              /\ \/ ~IsIndicatorKey(SourceElems[e].attrs)
                 \/ ExternalName(SourceElems[e].attrs) \notin DOMAIN ranges )
                => output[i].data.elems[e] = SourceElems[e]

\* C5's case: next to a table that holds ADX, an indicator block without an
\* entry and a block of another namespace named ADX, both with an indicatorMin
\* of their own.
C5_Witness ==
    /\ genPc = "done"
    /\ ADX \in DOMAIN ranges
    /\ Len(ranges[ADX]) = 3
    /\ \E i \in DocEntries : \E e, f \in 1..Len(SourceElems) :
        /\ SourceElems[e].tag = "Block"
        /\ IsIndicatorKey(SourceElems[e].attrs)
        /\ ExternalName(SourceElems[e].attrs) \notin DOMAIN ranges
        /\ "indicatorMin" \in DOMAIN output[i].data.elems[e].attrs
        /\ SourceElems[f].tag = "Block"
        /\ ~IsIndicatorKey(SourceElems[f].attrs)
        /\ NameAfterNamespace(SourceElems[f].attrs) = ADX
        /\ "indicatorMin" \in DOMAIN output[i].data.elems[f].attrs

\* C6: the archive generate_sqb wrote holds the template's entry names in the
\* template's order, and every entry other than the designated document has
\* the bytes of the template's entry at that place.
C6_OtherEntriesIdentical ==
    genPc = "done" =>
        /\ Len(output) = Len(template)
        /\ \A i \in 1..Len(template) :
            /\ output[i].name = template[i].name
            /\ template[i].name # xml_inside => output[i].data = template[i].data

\* C7: on a template archive without an entry at the designated path
\* generate_sqb ends with an error, not with an output archive.
C7_MissingDocumentFails ==
    ( /\ genPc \notin { "idle", "call" }
      /\ \A i \in 1..Len(template) : template[i].name # xml_inside )
        => genPc # "done"

---------------------------------------------------------------------------
(* calibrate_block_settings: build_ranges_jsons, then batch_generate_sqb *)

MaxTimeframes == 2   \* timeframes of the calibration file

\* --activo and --block-settings as main.py defaults them
activo == << "N", "D", "X" >>
template_sbq ==
    << "B", "l", "o", "c", "k", "S", "e", "t", "t", "i", "n", "g", "s", ".", "s", "q", "b" >>

DotJson == << ".", "j", "s", "o", "n" >>
DotSqb == << ".", "s", "q", "b" >>

\* Path(p).stem for a file name: the name without its last suffix
Stem(p) == IF LastIndex(p, ".") > 1 THEN SubSeq(p, 1, LastIndex(p, ".") - 1) ELSE p

\* str(n) for a natural number, as a str of the model
RECURSIVE IntStr(_)
IntStr(n) == IF n < 10 THEN << Ascii[4 + n] >> ELSE IntStr(n \div 10) \o << Ascii[4 + (n % 10)] >>

\* tf.get("tf") or tf.get("timeframe") or tf.get("name") or f"tf{idx}"
tf_name_of(tf, idx) ==
    IF Truthy(DictGet(tf.tags, "tf")) THEN tf.tags["tf"]
    ELSE IF Truthy(DictGet(tf.tags, "timeframe")) THEN tf.tags["timeframe"]
    ELSE IF Truthy(DictGet(tf.tags, "name")) THEN tf.tags["name"]
    ELSE << "t", "f" >> \o IntStr(idx)

\* round(x, decimals) with decimals=6.  The numbers of the model count units
\* of 1e-7, one digit below the rounding precision, so round() yields the
\* nearest multiple of ten units; a value halfway between two multiples goes
\* to the even one.
Round(x) ==
    LET r == x % 10
        lo == x - r
    IN  IF r < 5 THEN lo
        ELSE IF r > 5 THEN lo + 10
        ELSE IF (lo \div 10) % 2 = 0 THEN lo ELSE lo + 10

\* by_code.get(internal): the records of one internal code, in file order
by_code(datos, internal) ==
    SelectSeq(datos, LAMBDA r : r.indicador = internal)

\* a ranges dict that takes the first record of each code and ignores the rest
ranges_of_first_record(map, datos) ==
    [ ext \in { e \in DOMAIN map : by_code(datos, map[e]) # << >> } |->
        LET registros == by_code(datos, map[ext])
        IN  << Round(registros[1].minimo),
               Round(registros[1].maximo),
               Round(registros[1].paso) >> ]

\* the ranges dict of one timeframe: external names whose internal code has
\* records, each with (min of minimo, max of maximo, min of paso), rounded
ranges_of(map, datos) ==
    [ ext \in { e \in DOMAIN map : by_code(datos, map[e]) # << >> } |->
        LET registros == by_code(datos, map[ext])
        IN  << Round(Min({ registros[i].minimo : i \in 1..Len(registros) })),
               Round(Max({ registros[i].maximo : i \in 1..Len(registros) })),
               Round(Min({ registros[i].paso : i \in 1..Len(registros) })) >> ]

\* out_dir / f"{activo}_{tf_name}.json"
ranges_file(tfName) == activo \o << "_" >> \o tfName \o DotJson

\* sorted(ranges_dir.glob("*.json"))
glob_json(dir) == SortedStrs({ f \in DOMAIN dir : EndsWith(f, DotJson) })

\* (a variant of the check that never finds the list empty)
NoJsonFilesNever(files) == FALSE

\* "if not json_files"
NoJsonFiles(files) == files = << >>

\* tf_name = jf.stem.split("_")[-1]
tf_name_from_file(jf) == AfterLast(Stem(jf), "_")

\* out_dir / f"{Path(template_sbq).stem}_{activo}_{tf_name}.sqb"
out_sbq(tfName) == Stem(template_sbq) \o << "_" >> \o activo \o << "_" >> \o tfName \o DotSqb

Rec(code, lo, hi, step) == [indicador |-> code, minimo |-> lo, maximo |-> hi, paso |-> step]

M1 == << "M", "1" >>
H1 == << "H", "1" >>
X_M1 == << "X", "_", "M", "1" >>

\* the tags a timeframe of the calibration file may carry
TagsPool ==
    { [tf |-> M1],
      [tf |-> << >>, timeframe |-> H1],
      [name |-> X_M1],
      << >> }

\* the records a timeframe may carry, in units of 1e-7: some values lie on
\* the sixth decimal (500, 20), others carry a seventh digit (53, 407, 12, 77)
DatosPool ==
    { << >>,
      << Rec(SqAdx, 53, 500, 20), Rec(SqAdx, 30, 407, 12) >>,
      << Rec(SqAdx, 77, 200, 10), Rec(SqCRSI, 20, 300, 40) >> }

TimeframePool == { [tags |-> t, datos |-> d] : t \in TagsPool, d \in DatosPool }

\* the mapping file: a resolved name, an unresolved one
MappingFile == (ADX :> SqAdx) @@ (CRSI :> SqCRSI) @@ (WilliamsPR :> None)

\* what ./ranges_by_tf may hold when the run starts: nothing, the table of an
\* earlier run for another asset, a table edited by hand into a short list, a
\* file that is no JSON table
StaleDirs ==
    { << >>,
      (<< "S", "P", "X", "_", "M", "1", ".", "j", "s", "o", "n" >> :> (ADX :> << 1, 2, 1 >>)),
      (<< "N", "D", "X", "_", "D", "1", ".", "j", "s", "o", "n" >> :> (ADX :> << 7 >>)),
      (<< "R", "E", "A", "D", "M", "E", ".", "t", "x", "t" >> :> << >>) }

\* the templates of the batch runs: a document with indicator blocks beside an
\* auxiliary entry, and an archive whose designated entry is no XML
BatchTemplates ==
    { << [name |-> "a.txt", data |-> BytesData(1)],
         [name |-> xml_inside,
          data |-> XmlData(<< Elem("Block", [key |-> Indicators_ \o ADX, use |-> "false",
                                              indicatorMin |-> "1", foo |-> "x"]),
                              Elem("Block", [key |-> Signals_ \o ADX, use |-> "true",
                                              indicatorMin |-> "1"]) >>)] >>,
      << [name |-> xml_inside, data |-> BytesData(3)] >> }

InitBatch ==
    /\ timeframes \in SeqsUpTo(TimeframePool, MaxTimeframes)
    /\ rangesDir0 \in StaleDirs
    /\ rangesDir = rangesDir0
    /\ outDir = << >>
    /\ json_files = << >>
    /\ tfIdx = 0
    /\ calls = << >>
    /\ pc = "build"
    /\ template \in BatchTemplates
    /\ ranges = << >>
    /\ output = << >>
    /\ genPc = "idle"
    /\ xmlKeys = << >>
    /\ mt5_indicators = << >>
    /\ sqx_indicators = << >>
    /\ mapping = MappingFile
    /\ mapIdx = 0
    /\ mapPc = "idle"

\* build_ranges_jsons, one iteration of "for idx, tf in enumerate(...)": the
\* table is written to ranges_by_tf/{activo}_{tf_name}.json
BuildRangesNext ==
    /\ pc = "build"
    /\ tfIdx < Len(timeframes)
    /\ LET tf == timeframes[tfIdx + 1]
       IN  rangesDir' = DictSet(rangesDir, ranges_file(tf_name_of(tf, tfIdx + 1)),
                                ranges_of(mapping, tf.datos))
    /\ tfIdx' = tfIdx + 1
    /\ UNCHANGED << timeframes, rangesDir0, outDir, json_files, calls, pc, mapVars, genVars >>

\* build_ranges_jsons returns; batch_generate_sqb lists the directory and finds
\* no JSON file: FileNotFoundError
BatchNoData ==
    /\ pc = "build"
    /\ tfIdx = Len(timeframes)
    /\ NoJsonFiles(glob_json(rangesDir))
    /\ json_files' = glob_json(rangesDir)
    /\ pc' = "FileNotFoundError"
    /\ UNCHANGED << timeframes, rangesDir, rangesDir0, outDir, tfIdx, calls, mapVars, genVars >>

\* build_ranges_jsons returns; batch_generate_sqb lists the directory and
\* enters its loop
BatchStart ==
    /\ pc = "build"
    /\ tfIdx = Len(timeframes)
    /\ ~NoJsonFiles(glob_json(rangesDir))
    /\ json_files' = glob_json(rangesDir)
    /\ tfIdx' = 0
    /\ pc' = "loop"
    /\ UNCHANGED << timeframes, rangesDir, rangesDir0, outDir, calls, mapVars, genVars >>

\* one iteration of "for jf in json_files" whose generate_sqb returns
BatchNext ==
    /\ pc = "loop"
    /\ tfIdx < Len(json_files)
    /\ LET jf == json_files[tfIdx + 1]
           out == out_sbq(tf_name_from_file(jf))
           res == generate_sqb(template, rangesDir[jf])
       IN  /\ res.status = "done"
           /\ outDir' = DictSet(outDir, out, res.out)
           /\ calls' = Append(calls, [file |-> jf, out |-> out, status |-> res.status])
    /\ tfIdx' = tfIdx + 1
    /\ UNCHANGED << timeframes, rangesDir, rangesDir0, json_files, pc, mapVars, genVars >>

\* one iteration whose generate_sqb raises: nothing catches the exception, it
\* leaves batch_generate_sqb and calibrate_block_settings; the output file holds
\* what was written before it
BatchRaise ==
    /\ pc = "loop"
    /\ tfIdx < Len(json_files)
    /\ LET jf == json_files[tfIdx + 1]
           out == out_sbq(tf_name_from_file(jf))
           res == generate_sqb(template, rangesDir[jf])
       IN  /\ res.status # "done"
           /\ outDir' = DictSet(outDir, out, res.out)
           /\ calls' = Append(calls, [file |-> jf, out |-> out, status |-> res.status])
           /\ pc' = res.status
    /\ UNCHANGED << timeframes, rangesDir, rangesDir0, json_files, tfIdx, mapVars, genVars >>

\* the loop is over
BatchDone ==
    /\ pc = "loop"
    /\ tfIdx = Len(json_files)
    /\ pc' = "done"
    /\ UNCHANGED << timeframes, rangesDir, rangesDir0, outDir, json_files, tfIdx, calls,
                    mapVars, genVars >>

NextBatch ==
    BuildRangesNext \/ BatchNoData \/ BatchStart \/ BatchNext \/ BatchRaise \/ BatchDone

SpecBatch == InitBatch /\ [][NextBatch]_vars

\* any of the three units, run from its inputs
Init == InitReconcile \/ InitPatch \/ InitBatch

Next == NextReconcile \/ NextPatch \/ NextBatch

Spec == Init /\ [][Next]_vars

---------------------------------------------------------------------------
(* Claims about batch_generate_sqb *)

Ended == pc \in { "done", "FileNotFoundError", "ParseError", "IndexError" }

\* the range tables whose archive generate_sqb can write
Patchable(jf) == generate_sqb(template, rangesDir[jf]).status = "done"

\* C8: when the run has ended and the patching of some timeframe failed, every
\* other timeframe's generate_sqb call was still made and its archive written.
C8_FailureDoesNotAbortOthers ==
    Ended =>
        \A k \in 1..Len(json_files) :
            Patchable(json_files[k])
                => \E c \in 1..Len(calls) :
                      /\ calls[c].file = json_files[k]
                      /\ calls[c].status = "done"
                      /\ calls[c].out \in DOMAIN outDir

\* the name the claim gives the archive of timeframe number idx
ClaimedArchive(idx) == out_sbq(tf_name_of(timeframes[idx], idx))

\* C9: a run over n timeframes, started on an empty range-table directory,
\* calls generate_sqb once per timeframe and leaves n output archives, the one
\* of each timeframe named {templateStem}_{asset}_{timeframeName}.sqb after the
\* timeframe's own name; none is overwritten by another's.
C9_OneArchivePerTimeframe ==
    (pc = "done" /\ rangesDir0 = << >>) =>
        /\ Len(calls) = Len(timeframes)
        /\ Cardinality(DOMAIN outDir) = Len(timeframes)
        /\ \A i \in 1..Len(timeframes) : ClaimedArchive(i) \in DOMAIN outDir
        /\ \A c, d \in 1..Len(calls) : c # d => calls[c].out # calls[d].out

\* C10: when the range-table directory holds no range-table file,
\* batch_generate_sqb ends with FileNotFoundError, having made no generate_sqb
\* call and written no output archive.
C10_NoDataRaisesBeforeAnyWrite ==
    (pc # "build" /\ glob_json(rangesDir) = << >>) =>
        /\ pc = "FileNotFoundError"
        /\ calls = << >>
        /\ DOMAIN outDir = {}

\* C10's case: the run has reached batch_generate_sqb on a directory that
\* holds a file, but no *.json file.
C10_Witness ==
    /\ pc = "FileNotFoundError"
    /\ DOMAIN rangesDir # {}
    /\ glob_json(rangesDir) = << >>

(***************************************************************************)
(* Claims about build_ranges_jsons                                         *)
(***************************************************************************)

\* the timeframe build_ranges_jsons has just written a table for
LastTimeframe == timeframes[tfIdx]

\* the table written for that timeframe
LastTable == rangesDir[ranges_file(tf_name_of(LastTimeframe, tfIdx))]

\* the records of a timeframe whose code is the one an external name maps to
RecordsOf(tf, ext) ==
    { r \in Range(tf.datos) : r.indicador = mapping[ext] }

\* the external names whose internal code has a record in the timeframe
NamesWithRecords(tf) ==
    { ext \in DOMAIN mapping : RecordsOf(tf, ext) # {} }

\* (min of minimo, max of maximo, min of paso) over a set of records
ExactTriple(recs) ==
    << Min({ r.minimo : r \in recs }),
       Max({ r.maximo : r \in recs }),
       Min({ r.paso : r \in recs }) >>

\* v is x rounded to six decimals: a multiple of ten units at most half a
\* step away from x
RoundedTo6(v, x) == v % 10 = 0 /\ (v - x) \in -5..5

\* C11 as stated: right after build_ranges_jsons has handled a timeframe, the
\* table it wrote has exactly the external names whose internal code has a
\* record in that timeframe as keys, and each value is exactly (minimum of
\* minimo, maximum of maximo, minimum of paso) of those records.
C11_RangeTableExact ==
    (pc = "build" /\ tfIdx > 0) =>
        /\ DOMAIN LastTable = NamesWithRecords(LastTimeframe)
        /\ \A ext \in NamesWithRecords(LastTimeframe) :
              LastTable[ext] = ExactTriple(RecordsOf(LastTimeframe, ext))

\* C11, amended: right after build_ranges_jsons has handled a timeframe, the
\* table it wrote has exactly the external names whose internal code has a
\* record in that timeframe as keys (names mapped to null or without records
\* are absent), and each value is (minimum of minimo, maximum of maximo,
\* minimum of paso) of those records, each rounded to six decimals.
C11_RangeTableRounded ==
    (pc = "build" /\ tfIdx > 0) =>
        /\ DOMAIN LastTable = NamesWithRecords(LastTimeframe)
        /\ \A ext \in NamesWithRecords(LastTimeframe) :
              LET exact == ExactTriple(RecordsOf(LastTimeframe, ext))
              IN  /\ Len(LastTable[ext]) = 3
                  /\ \A k \in 1..3 : RoundedTo6(LastTable[ext][k], exact[k])

\* C11's case: a timeframe with two records of one code has been written;
\* one name is mapped to null, another has no record, and the rounding moved
\* a value.
C11_Witness ==
    /\ pc = "build"
    /\ tfIdx > 0
    /\ mapping[WilliamsPR] = None
    /\ WilliamsPR \notin DOMAIN LastTable
    /\ mapping[CRSI] # None
    /\ CRSI \notin DOMAIN LastTable
    /\ Cardinality(RecordsOf(LastTimeframe, ADX)) = 2
    /\ ADX \in DOMAIN LastTable
    /\ LastTable[ADX] # ExactTriple(RecordsOf(LastTimeframe, ADX))

==========================================================================
